---- MODULE Spec2Model ----
(***************************************************************************)
(* Model of the trade manager: the condition evaluator (check_entry,       *)
(* check_sl, check_tp), the broker client's fill extraction and the        *)
(* control loop run_trade_manager, which drives every active trade through *)
(* its lifecycle.                                                          *)
(*                                                                         *)
(* One iteration of the loop is: FetchActiveTrades, then one action per    *)
(* fetched row (the branch of the loop body that row takes, with every     *)
(* call the branch makes), then Sleep.  The persistence service and the    *)
(* broker are external: what they return (snapshots, HTTP responses,       *)
(* success or an exception) is drawn with \E in the action that calls      *)
(* them.  trace records, in order, every call the current iteration made.  *)
(* An exception that nothing catches leaves run_trade_manager: pc becomes   *)
(* "crashed" and no action is enabled any more.                            *)
(*                                                                         *)
(* SpecEval is a second specification, of single calls: one row with any   *)
(* setting of one condition and any pair of snapshots goes through the     *)
(* block of the loop body that evaluates that condition, and one broker    *)
(* call extracts the fill of any response.                                 *)
(*                                                                         *)
(* SpecLive is the control loop under fairness: the loop keeps running, and *)
(* a fetch or a force close that is attempted again and again eventually   *)
(* succeeds.                                                               *)
(***************************************************************************)
EXTENDS Integers, Sequences, FiniteSets, TLC

\* ---------------------------------------------------------------- bounds
MaxPrice == 2
MaxFill == 1

\* Python's None, and a broker price field float() cannot convert.
None == -1
Unparsable == -2

\* In place of a return value: the call raised an exception to its caller.
Raise == -3

\* The table holds two trades, one of each asset class (see Conditions).
TradeIds == {1, 2}
LastId == CHOOSE m \in TradeIds : \A id \in TradeIds : id <= m

\* Snapshot prices, and the prices the broker fills at.
Prices == 1..MaxPrice
FillPrices == 1..MaxFill
PriceOrNone == Prices \cup {None}
Timeframes == {"5m"}

VARIABLES
    active_trades,    \* the active_trades table: id -> [present, manage, status]
    executed_trades,  \* the executed_trades table: id -> [open_price, close_price, reason]
    pc,               \* where run_trade_manager is: "fetch", "rows", "sleep", or
                      \* "crashed" once an exception has left it
    rows,             \* the rows fetch_active_trades returned to this iteration
    idx,              \* index in rows of the next row of the for loop
    trace,            \* the calls of the current iteration, in order
    marked,           \* ids for which mark_as_managing has succeeded
    call,             \* a single call of an evaluator or broker function: its arguments
    ret               \* what that call returned

vars == <<active_trades, executed_trades, pc, rows, idx, trace, marked, call, ret>>

\* ------------------------------------------------------------- the data
\* str.lower() on the strings the rows carry.
Lower(s) ==
    CASE s = "TOUCH" -> "touch"
      [] s = "AT" -> "at"
      [] s = "TF" -> "tf"
      [] s = "EQUITY" -> "equity"
      [] OTHER -> s

\* A spot row of the market-data table, or no row at all (exists = FALSE).
NoSpot == [exists |-> FALSE, last_price |-> None, tf_closes |-> [tf \in Timeframes |-> None]]

SpotRows ==
    [exists : {TRUE}, last_price : PriceOrNone, tf_closes : [Timeframes -> PriceOrNone]]

Spots == {NoSpot} \cup SpotRows

\* The condition fields of the trade with this id (they do not change while
\* the trade is managed): odd ids are long equity trades entering on a touch
\* of the last price, even ids are short option trades entering at once on a
\* time-frame close.  The long trade's stop-loss and take-profit levels
\* coincide, so one price can satisfy both; the short trade reads them from
\* different prices of its snapshot.
Conditions(id) ==
    IF id % 2 = 1
    THEN [symbol |-> "AMD", occ |-> "", asset_type |-> "equity", qty |-> 1,
          side |-> "long",
          entry_enabled |-> TRUE, entry_cond |-> "touch", entry_price_type |-> "last",
          entry_tf |-> "", entry |-> 1,
          sl_enabled |-> TRUE, sl_cond |-> "at", sl_price_type |-> "last",
          sl_tf |-> "", sl |-> 1,
          tp_enabled |-> TRUE, tp_cond |-> "at", tp_price_type |-> "last",
          tp_tf |-> "", tp |-> 1]
    ELSE [symbol |-> "AMD", occ |-> "O:AMD250919C00160000", asset_type |-> "option",
          qty |-> 1, side |-> "short",
          entry_enabled |-> TRUE, entry_cond |-> "now", entry_price_type |-> "tf",
          entry_tf |-> "5m", entry |-> 2,
          sl_enabled |-> TRUE, sl_cond |-> "AT", sl_price_type |-> "tf",
          sl_tf |-> "5m", sl |-> 2,
          tp_enabled |-> TRUE, tp_cond |-> "at", tp_price_type |-> "last",
          tp_tf |-> "", tp |-> 1]

\* The row fetch_active_trades returns for a trade of the table.
Row(id, t) ==
    LET c == Conditions(id) IN
    [id |-> id, manage |-> t.manage, status |-> t.status,
     symbol |-> c.symbol, occ |-> c.occ, asset_type |-> c.asset_type, qty |-> c.qty,
     side |-> c.side,
     entry_enabled |-> c.entry_enabled, entry_cond |-> c.entry_cond,
     entry_price_type |-> c.entry_price_type, entry_tf |-> c.entry_tf, entry |-> c.entry,
     sl_enabled |-> c.sl_enabled, sl_cond |-> c.sl_cond,
     sl_price_type |-> c.sl_price_type, sl_tf |-> c.sl_tf, sl |-> c.sl,
     tp_enabled |-> c.tp_enabled, tp_cond |-> c.tp_cond,
     tp_price_type |-> c.tp_price_type, tp_tf |-> c.tp_tf, tp |-> c.tp]

\* ------------------------------------------------- the condition evaluator
_get_spot_price(spot_row) ==
    IF ~spot_row.exists THEN None ELSE spot_row.last_price

_get_tf_close(spot_row, tf) ==
    IF ~spot_row.exists \/ tf = "" THEN None
    ELSE IF tf \notin Timeframes THEN None
    ELSE spot_row.tf_closes[tf]

_get_entry_price(row, spot_under, spot_option) ==
    LET price_type == Lower(row.entry_price_type)
        tf == row.entry_tf
    IN  IF row.asset_type = "equity"
        THEN IF price_type = "tf" THEN _get_tf_close(spot_under, tf)
             ELSE _get_spot_price(spot_under)
        ELSE IF price_type = "tf" THEN _get_tf_close(spot_option, tf)
             ELSE _get_spot_price(spot_option)

_get_sl_level(row) == row.sl

_get_tp_level(row) == row.tp

\* check_entry with the candle-close branch comparing as a take-profit would.
check_entry_close_inverted(row, spot_under, spot_option) ==
    LET cond == Lower(row.entry_cond)
        is_long == row.side = "long"
        price == _get_entry_price(row, spot_under, spot_option)
        entry == row.entry
    IN  IF ~row.entry_enabled THEN <<FALSE, None>>
        ELSE IF cond = "" THEN <<FALSE, None>>
        ELSE IF price = None THEN <<FALSE, None>>
        ELSE IF entry = None THEN <<FALSE, None>>
        ELSE IF cond = "touch"
             THEN IF is_long /\ price <= entry THEN <<TRUE, price>>
                  ELSE IF ~is_long /\ price >= entry THEN <<TRUE, price>>
                  ELSE <<FALSE, None>>
        ELSE IF cond = "candle-close"
             THEN IF is_long /\ price >= entry THEN <<TRUE, price>>
                  ELSE IF ~is_long /\ price <= entry THEN <<TRUE, price>>
                  ELSE <<FALSE, None>>
        ELSE IF cond = "now" THEN <<TRUE, price>>
        ELSE <<FALSE, None>>

\* Each check returns <<triggered, price used>>.
check_entry(row, spot_under, spot_option) ==
    LET cond == Lower(row.entry_cond)
        is_long == row.side = "long"
        price == _get_entry_price(row, spot_under, spot_option)
        entry == row.entry
    IN  IF ~row.entry_enabled THEN <<FALSE, None>>
        ELSE IF cond = "" THEN <<FALSE, None>>
        ELSE IF price = None THEN <<FALSE, None>>
        ELSE IF entry = None THEN <<FALSE, None>>
        ELSE IF cond = "touch"
             THEN IF is_long /\ price <= entry THEN <<TRUE, price>>
                  ELSE IF ~is_long /\ price >= entry THEN <<TRUE, price>>
                  ELSE <<FALSE, None>>
        ELSE IF cond = "candle-close"
             THEN IF is_long /\ price <= entry THEN <<TRUE, price>>
                  ELSE IF ~is_long /\ price >= entry THEN <<TRUE, price>>
                  ELSE <<FALSE, None>>
        ELSE IF cond = "now" THEN <<TRUE, price>>
        ELSE <<FALSE, None>>

\* check_sl without the test of sl_enabled.
check_sl_ignores_enabled(row, spot_under, spot_option) ==
    LET cond == Lower(row.sl_cond)
        is_long == row.side = "long"
        price_type == Lower(row.sl_price_type)
        tf == row.sl_tf
        level == _get_sl_level(row)
        price == IF row.asset_type = "equity"
                 THEN IF price_type = "tf" THEN _get_tf_close(spot_under, tf)
                      ELSE _get_spot_price(spot_under)
                 ELSE IF price_type = "tf" THEN _get_tf_close(spot_option, tf)
                      ELSE _get_spot_price(spot_option)
    IN  IF cond = "" THEN <<FALSE, None>>
        ELSE IF level = None THEN <<FALSE, None>>
        ELSE IF price = None THEN <<FALSE, None>>
        ELSE IF cond = "at"
             THEN IF is_long /\ price <= level THEN <<TRUE, price>>
                  ELSE IF ~is_long /\ price >= level THEN <<TRUE, price>>
                  ELSE <<FALSE, None>>
        ELSE <<FALSE, None>>

check_sl(row, spot_under, spot_option) ==
    LET cond == Lower(row.sl_cond)
        is_long == row.side = "long"
        price_type == Lower(row.sl_price_type)
        tf == row.sl_tf
        level == _get_sl_level(row)
        price == IF row.asset_type = "equity"
                 THEN IF price_type = "tf" THEN _get_tf_close(spot_under, tf)
                      ELSE _get_spot_price(spot_under)
                 ELSE IF price_type = "tf" THEN _get_tf_close(spot_option, tf)
                      ELSE _get_spot_price(spot_option)
    IN  IF ~row.sl_enabled THEN <<FALSE, None>>
        ELSE IF cond = "" THEN <<FALSE, None>>
        ELSE IF level = None THEN <<FALSE, None>>
        ELSE IF price = None THEN <<FALSE, None>>
        ELSE IF cond = "at"
             THEN IF is_long /\ price <= level THEN <<TRUE, price>>
                  ELSE IF ~is_long /\ price >= level THEN <<TRUE, price>>
                  ELSE <<FALSE, None>>
        ELSE <<FALSE, None>>

\* check_tp copied from check_sl with the comparisons left as they were.
check_tp_not_inverted(row, spot_under, spot_option) ==
    LET cond == Lower(row.tp_cond)
        is_long == row.side = "long"
        price_type == Lower(row.tp_price_type)
        tf == row.tp_tf
        level == _get_tp_level(row)
        price == IF row.asset_type = "equity"
                 THEN IF price_type = "tf" THEN _get_tf_close(spot_under, tf)
                      ELSE _get_spot_price(spot_under)
                 ELSE IF price_type = "tf" THEN _get_tf_close(spot_option, tf)
                      ELSE _get_spot_price(spot_option)
    IN  IF ~row.tp_enabled THEN <<FALSE, None>>
        ELSE IF cond = "" THEN <<FALSE, None>>
        ELSE IF level = None THEN <<FALSE, None>>
        ELSE IF price = None THEN <<FALSE, None>>
        ELSE IF cond = "at"
             THEN IF is_long /\ price <= level THEN <<TRUE, price>>
                  ELSE IF ~is_long /\ price >= level THEN <<TRUE, price>>
                  ELSE <<FALSE, None>>
        ELSE <<FALSE, None>>

check_tp(row, spot_under, spot_option) ==
    LET cond == Lower(row.tp_cond)
        is_long == row.side = "long"
        price_type == Lower(row.tp_price_type)
        tf == row.tp_tf
        level == _get_tp_level(row)
        price == IF row.asset_type = "equity"
                 THEN IF price_type = "tf" THEN _get_tf_close(spot_under, tf)
                      ELSE _get_spot_price(spot_under)
                 ELSE IF price_type = "tf" THEN _get_tf_close(spot_option, tf)
                      ELSE _get_spot_price(spot_option)
    IN  IF ~row.tp_enabled THEN <<FALSE, None>>
        ELSE IF cond = "" THEN <<FALSE, None>>
        ELSE IF level = None THEN <<FALSE, None>>
        ELSE IF price = None THEN <<FALSE, None>>
        ELSE IF cond = "at"
             THEN IF is_long /\ price >= level THEN <<TRUE, price>>
                  ELSE IF ~is_long /\ price <= level THEN <<TRUE, price>>
                  ELSE <<FALSE, None>>
        ELSE <<FALSE, None>>

\* ---------------------------------------------------------- the broker
\* What a fill's "price" or the order's "average_fill_price" may hold.
BrokerFields == FillPrices \cup {None, Unparsable}

\* The JSON of a response: an object whose "order" is an object and whose
\* "fills" is a list of objects, or anything else (a list, a string, "fills"
\* as an object keyed by "fill").
Shapes == {"object", "other"}

\* The outcome of the HTTP call: an exception (ok = FALSE: transport error,
\* timeout, error status, no JSON), or the JSON of the response: its shape, the
\* price of the order's first fill and the order's average fill price.
BrokerResponses ==
    [ok : BOOLEAN, shape : Shapes, fill : BrokerFields, avg : BrokerFields]

\* float(x) succeeds on a number.
FloatOk(x) == x >= 0

\* The extraction that looks at the order's average fill price first.
ExtractFillAverageFirst(resp) ==
    IF ~resp.ok THEN None
    ELSE IF resp.shape # "object" THEN Raise
    ELSE IF resp.avg # None /\ FloatOk(resp.avg) THEN resp.avg
    ELSE IF resp.fill # None /\ FloatOk(resp.fill) THEN resp.fill
    ELSE None

\* The try block covers the HTTP call and resp.json() only: the .get and
\* fills[0] that follow it raise on JSON of another shape.
ExtractFill(resp) ==
    IF ~resp.ok THEN None
    ELSE IF resp.shape # "object" THEN Raise
    ELSE IF resp.fill # None /\ FloatOk(resp.fill) THEN resp.fill
    ELSE IF resp.avg # None /\ FloatOk(resp.avg) THEN resp.avg
    ELSE None

place_equity_market(symbol, qty, side, resp) == ExtractFill(resp)

\* Tradier expects the OCC symbol without the "O:" prefix.
OccSymbol(occ) ==
    IF occ = "O:AMD250919C00160000" THEN "AMD250919C00160000" ELSE occ

place_option_market(occ, qty, side, resp) == ExtractFill(resp)

\* ----------------------------------------------------- the persistence
NoTrade == [present |-> FALSE, manage |-> "", status |-> ""]

delete_trade(at, id) == [at EXCEPT ![id] = NoTrade]

mark_as_managing(at, id) == [at EXCEPT ![id].status = "nt-managing"]

insert_executed_trade_open(ex, row, open_price) ==
    [ex EXCEPT ![row.id].open_price = open_price]

update_executed_trade_close(ex, active_trade_id, asset_type, qty, close_price, reason) ==
    [ex EXCEPT ![active_trade_id].close_price = close_price,
               ![active_trade_id].reason = reason]

\* The rows of the table, in id order.
RECURSIVE RowsFrom(_, _)
RowsFrom(at, id) ==
    IF id > LastId THEN <<>>
    ELSE IF at[id].present THEN <<Row(id, at[id])>> \o RowsFrom(at, id + 1)
    ELSE RowsFrom(at, id + 1)

fetch_active_trades(at) == RowsFrom(at, 1)

\* fetch_spot is called for the symbol and the occ that are set.
SpotChoices(key) == IF key = "" THEN {NoSpot} ELSE Spots

\* ------------------------------------------------------ the control loop
Manages == {"Y", "C", "N"}
Statuses == {"nt-waiting", "nt-managing", "pos-managing"}

NoExecuted == [open_price |-> None, close_price |-> None, reason |-> ""]

\* One call of the iteration: the trade it is for, the function called, its
\* side or reason, the price it was given or returned, and whether it
\* returned normally (for a check_*: whether it triggered).
Ev(id, op, arg, price, ok) ==
    [id |-> id, op |-> op, arg |-> arg, price |-> price, ok |-> ok]

\* What processing one row did: its calls, and the tables after them.
Outcome(ev, at, ex, mk) == [ev |-> ev, at |-> at, ex |-> ex, mk |-> mk]

IsForceClose(manage) == manage = "C"

\* Every flag but 'C' taken as "manage".
IsManageUnlessC(manage) == manage # "C"

IsManage(manage) == manage = "Y"

\* A status test that takes 'nt-managing' for waiting too.
IsWaitingOrNtManaging(status) == status \in {"nt-waiting", "nt-managing"}

IsWaiting(status) == status = "nt-waiting"

IsManaging(status) == status \in {"nt-managing", "pos-managing"}

\* A fill test that lets an order without a fill through.
HasFillAlways(fill_price) == TRUE

\* "Only treat as closed if we have a confirmed fill price".
HasFill(fill_price) == fill_price # None

\* The open recorded at the signal price of the entry check.
OpenPriceSignal(fill_price, entry_price) == entry_price

OpenPrice(fill_price, entry_price) == fill_price

ClosePrice(fill_price, signal_price) == fill_price

\* The event of a broker call: the fill it returned, or that it raised.
OrderEv(id, op, side, fill_price) ==
    IF fill_price = Raise THEN Ev(id, op, side, None, FALSE)
    ELSE Ev(id, op, side, fill_price, TRUE)

\* The market order that opens the row's position.
OpenOrder(row, resp) ==
    IF Lower(row.asset_type) = "equity"
    THEN OrderEv(row.id, "place_equity_market", "buy",
                 place_equity_market(row.symbol, row.qty, "buy", resp))
    ELSE OrderEv(row.id, "place_option_market", "buy_to_open",
                 place_option_market(row.occ, row.qty, "buy_to_open", resp))

\* The market order that closes the row's position.
CloseOrder(row, resp) ==
    IF Lower(row.asset_type) = "equity"
    THEN OrderEv(row.id, "place_equity_market", "sell",
                 place_equity_market(row.symbol, row.qty, "sell", resp))
    ELSE OrderEv(row.id, "place_option_market", "sell_to_close",
                 place_option_market(row.occ, row.qty, "sell_to_close", resp))

\* A close that deletes the row before it has placed the order.
PlaceCloseDeletesFirst(row, reason, signal_price, order, upd_ok, del_ok, at, ex, mk) ==
    LET fill_price == order.price
        close_price == ClosePrice(fill_price, signal_price)
        delete == Ev(row.id, "delete_trade", "", None, del_ok)
        deleted == IF del_ok THEN delete_trade(at, row.id) ELSE at
    IN  IF ~HasFill(fill_price) THEN Outcome(<<delete, order>>, deleted, ex, mk)
        ELSE Outcome(
               <<delete, order,
                 Ev(row.id, "update_executed_trade_close", reason, close_price, upd_ok)>>,
               deleted,
               IF upd_ok
               THEN update_executed_trade_close(ex, row.id, Lower(row.asset_type),
                                                row.qty, close_price, reason)
               ELSE ex,
               mk)

\* The close order has been placed: on a confirmed fill, the executed-close
\* update and the deletion, each in its own try block; else nothing.
PlaceClose(row, reason, signal_price, order, upd_ok, del_ok, at, ex, mk) ==
    LET fill_price == order.price
        close_price == ClosePrice(fill_price, signal_price)
    IN  IF ~HasFill(fill_price) THEN Outcome(<<order>>, at, ex, mk)
        ELSE Outcome(
               <<order,
                 Ev(row.id, "update_executed_trade_close", reason, close_price, upd_ok),
                 Ev(row.id, "delete_trade", "", None, del_ok)>>,
               IF del_ok THEN delete_trade(at, row.id) ELSE at,
               IF upd_ok
               THEN update_executed_trade_close(ex, row.id, Lower(row.asset_type),
                                                row.qty, close_price, reason)
               ELSE ex,
               mk)

\* A force close of a waiting row that sells through the broker before it
\* deletes the row.
ForceCloseWaitingSells(row, del_ok, at, ex, mk) ==
    Outcome(<<Ev(row.id, IF Lower(row.asset_type) = "equity"
                         THEN "place_equity_market" ELSE "place_option_market",
                 IF Lower(row.asset_type) = "equity" THEN "sell" ELSE "sell_to_close",
                 None, TRUE),
              Ev(row.id, "delete_trade", "", None, del_ok)>>,
            IF del_ok THEN delete_trade(at, row.id) ELSE at, ex, mk)

\* A force close of a waiting row that leaves the row to the next iteration.
ForceCloseWaitingKeeps(row, del_ok, at, ex, mk) == Outcome(<<>>, at, ex, mk)

\* manage = 'C', status nt-waiting: the row is deleted, no broker trade existed.
ForceCloseWaiting(row, del_ok, at, ex, mk) ==
    Outcome(<<Ev(row.id, "delete_trade", "", None, del_ok)>>,
            IF del_ok THEN delete_trade(at, row.id) ELSE at, ex, mk)

\* The price the force close logs beside the fill.
ForceSignalPrice(row, spot_under, spot_option) ==
    IF Lower(row.asset_type) = "equity"
    THEN _get_spot_price(spot_under)
    ELSE _get_spot_price(spot_option)

\* manage = 'C', status managing: close via the broker.
ForceCloseManaging(row, signal_price, order, upd_ok, del_ok, at, ex, mk) ==
    PlaceClose(row, "force", signal_price, order, upd_ok, del_ok, at, ex, mk)

\* An entry that records the open and forgets to mark the row managing.
EntryForgetsMark(row, res, order, ins_ok, mark_ok, at, ex, mk) ==
    LET check == Ev(row.id, "check_entry", "", res[2], res[1])
        open_price == order.price
    IN  IF ~res[1] \/ res[2] = None THEN Outcome(<<check>>, at, ex, mk)
        ELSE IF order.price = None THEN Outcome(<<check, order>>, at, ex, mk)
        ELSE Outcome(<<check, order,
                       Ev(row.id, "insert_executed_trade_open", "", open_price, ins_ok)>>,
                     at,
                     IF ins_ok THEN insert_executed_trade_open(ex, row, open_price) ELSE ex,
                     mk)

\* An entry whose two writes sit in separate try blocks: the row is marked
\* managing although recording the open raised.
EntrySeparateTry(row, res, order, ins_ok, mark_ok, at, ex, mk) ==
    LET check == Ev(row.id, "check_entry", "", res[2], res[1])
        open_price == order.price
    IN  IF ~res[1] \/ res[2] = None THEN Outcome(<<check>>, at, ex, mk)
        ELSE IF order.price = None THEN Outcome(<<check, order>>, at, ex, mk)
        ELSE Outcome(<<check, order,
                       Ev(row.id, "insert_executed_trade_open", "", open_price, ins_ok),
                       Ev(row.id, "mark_as_managing", "", None, mark_ok)>>,
                     IF mark_ok THEN mark_as_managing(at, row.id) ELSE at,
                     IF ins_ok THEN insert_executed_trade_open(ex, row, open_price) ELSE ex,
                     IF mark_ok THEN mk \cup {row.id} ELSE mk)

\* An entry that submits its order a second time when the first came back
\* without a fill.
EntryRetries(row, res, order, ins_ok, mark_ok, at, ex, mk) ==
    LET check == Ev(row.id, "check_entry", "", res[2], res[1])
        open_price == order.price
    IN  IF ~res[1] \/ res[2] = None THEN Outcome(<<check>>, at, ex, mk)
        ELSE IF order.price = None THEN Outcome(<<check, order, order>>, at, ex, mk)
        ELSE IF ~ins_ok
        THEN Outcome(<<check, order,
                       Ev(row.id, "insert_executed_trade_open", "", open_price, FALSE)>>,
                     at, ex, mk)
        ELSE Outcome(<<check, order,
                       Ev(row.id, "insert_executed_trade_open", "", open_price, TRUE),
                       Ev(row.id, "mark_as_managing", "", None, mark_ok)>>,
                     IF mark_ok THEN mark_as_managing(at, row.id) ELSE at,
                     insert_executed_trade_open(ex, row, open_price),
                     IF mark_ok THEN mk \cup {row.id} ELSE mk)

\* manage = 'Y', status nt-waiting: the entry.  res is check_entry's result,
\* order the open order (placed only when the entry triggered).
Entry(row, res, order, ins_ok, mark_ok, at, ex, mk) ==
    LET should_enter == res[1]
        entry_price == res[2]
        check == Ev(row.id, "check_entry", "", entry_price, should_enter)
        fill_price == order.price
        open_price == OpenPrice(fill_price, entry_price)
    IN  IF ~should_enter \/ entry_price = None THEN Outcome(<<check>>, at, ex, mk)
        ELSE IF ~HasFill(fill_price) THEN Outcome(<<check, order>>, at, ex, mk)
        ELSE IF ~ins_ok
        THEN Outcome(<<check, order,
                       Ev(row.id, "insert_executed_trade_open", "", open_price, FALSE)>>,
                     at, ex, mk)
        ELSE Outcome(<<check, order,
                       Ev(row.id, "insert_executed_trade_open", "", open_price, TRUE),
                       Ev(row.id, "mark_as_managing", "", None, mark_ok)>>,
                     IF mark_ok THEN mark_as_managing(at, row.id) ELSE at,
                     insert_executed_trade_open(ex, row, open_price),
                     IF mark_ok THEN mk \cup {row.id} ELSE mk)

\* The continue placed in the fill branch only: without a fill the row goes
\* on to the take-profit check.
StopLossEndsRowOnFill(fill_price) == fill_price # None

\* Whether the row is done once the stop-loss has triggered: the continue
\* that ends the stop-loss block is reached with or without a fill.
StopLossEndsRow(fill_price) == TRUE

\* manage = 'Y', status managing: take-profit, reached when the stop-loss
\* block did not end the row.  res is check_tp's result.
TakeProfit(row, res, order, upd_ok, del_ok, at, ex, mk) ==
    LET tp_hit == res[1]
        tp_price_signal == res[2]
        check == Ev(row.id, "check_tp", "", tp_price_signal, tp_hit)
        close == PlaceClose(row, "tp", tp_price_signal, order, upd_ok, del_ok, at, ex, mk)
    IN  IF tp_hit /\ tp_price_signal # None
        THEN Outcome(<<check>> \o close.ev, close.at, close.ex, close.mk)
        ELSE Outcome(<<check>>, at, ex, mk)

\* manage = 'Y', status managing: stop-loss first, then take-profit.  sl_res
\* and tp_res are what check_sl and check_tp return on the row's snapshots.
StopLossTakeProfit(row, sl_res, tp_res, order, upd_ok, del_ok, at, ex, mk) ==
    LET sl_hit == sl_res[1]
        sl_price_signal == sl_res[2]
        check == Ev(row.id, "check_sl", "", sl_price_signal, sl_hit)
        close == PlaceClose(row, "sl", sl_price_signal, order, upd_ok, del_ok, at, ex, mk)
        after == TakeProfit(row, tp_res, order, upd_ok, del_ok,
                            close.at, close.ex, close.mk)
        tp == TakeProfit(row, tp_res, order, upd_ok, del_ok, at, ex, mk)
    IN  IF sl_hit /\ sl_price_signal # None
        THEN IF StopLossEndsRow(order.price)
             THEN Outcome(<<check>> \o close.ev, close.at, close.ex, close.mk)
             ELSE Outcome(<<check>> \o close.ev \o after.ev, after.at, after.ex, after.mk)
        ELSE Outcome(<<check>> \o tp.ev, tp.at, tp.ex, tp.mk)

\* Which block of the loop body a fetched row reaches.
ReachesForceClose(manage, status) == IsForceClose(manage)

ReachesSkip(manage, status) == ~IsForceClose(manage) /\ ~IsManage(manage)

\* The entry block reached by every managed row, whatever its status.
ReachesEntryAnyStatus(manage, status) == ~IsForceClose(manage) /\ IsManage(manage)

ReachesEntry(manage, status) ==
    ~IsForceClose(manage) /\ IsManage(manage) /\ IsWaiting(status)

\* The stop-loss block reached by every managed row, waiting ones included.
ReachesStopLossAnyStatus(manage, status) == ~IsForceClose(manage) /\ IsManage(manage)

ReachesStopLoss(manage, status) ==
    ~IsForceClose(manage) /\ IsManage(manage) /\ ~IsWaiting(status) /\ IsManaging(status)

\* No single call is under way while the loop runs.
NoCall == [fn |-> ""]
NotReturned == <<>>

\* A broker call of the row's block raised: nothing in run_trade_manager
\* catches it.
Raises(o) ==
    \E i \in 1..Len(o.ev) : o.ev[i].op \in {"place_equity_market", "place_option_market"}
                             /\ ~o.ev[i].ok

\* The statuses a trade is in when the loop starts: waiting, or managing
\* under one of the two names the loop takes for managing, 'nt-managing' for
\* the equity trade and 'pos-managing' for the option trade.
InitialStatuses(id) ==
    IF id % 2 = 1 THEN {"nt-waiting", "nt-managing"} ELSE {"nt-waiting", "pos-managing"}

\* ------------------------------------------------------------ the actions
Init ==
    /\ active_trades \in [TradeIds -> [present : {TRUE}, manage : Manages, status : Statuses]]
    /\ \A id \in TradeIds : active_trades[id].status \in InitialStatuses(id)
    /\ executed_trades =
         [id \in TradeIds |->
            IF IsManaging(active_trades[id].status)
            THEN [NoExecuted EXCEPT !.open_price = 1]
            ELSE NoExecuted]
    /\ pc = "fetch"
    /\ rows = <<>>
    /\ idx = 1
    /\ trace = <<>>
    /\ marked = {}
    /\ call = NoCall
    /\ ret = NotReturned

\* rows = supabase_client.fetch_active_trades()
FetchActiveTrades ==
    /\ pc = "fetch"
    /\ rows' = fetch_active_trades(active_trades)
    /\ idx' = 1
    /\ pc' = "rows"
    /\ trace' = <<Ev(0, "fetch_active_trades", "", None, TRUE)>>
    /\ UNCHANGED <<active_trades, executed_trades, marked, call, ret>>

\* fetch_active_trades raised: log, sleep, continue.
FetchActiveTradesError ==
    /\ pc = "fetch"
    /\ rows' = <<>>
    /\ idx' = 1
    /\ pc' = "sleep"
    /\ trace' = <<Ev(0, "fetch_active_trades", "", None, FALSE)>>
    /\ UNCHANGED <<active_trades, executed_trades, marked, call, ret>>

InRows == pc = "rows" /\ idx <= Len(rows)

\* The fetch_spot calls of a row, all returning normally.
FetchSpots(row) ==
    (IF row.symbol # "" THEN <<Ev(row.id, "fetch_spot", row.symbol, None, TRUE)>> ELSE <<>>)
    \o (IF row.occ # "" THEN <<Ev(row.id, "fetch_spot", row.occ, None, TRUE)>> ELSE <<>>)

\* The row's snapshots were fetched and its block did o: on to the next row.
Done(row, o) ==
    /\ ~Raises(o)
    /\ trace' = trace \o FetchSpots(row) \o o.ev
    /\ active_trades' = o.at
    /\ executed_trades' = o.ex
    /\ marked' = o.mk
    /\ idx' = idx + 1
    /\ UNCHANGED <<pc, rows, call, ret>>

\* A fetch_spot error handled with break: the rest of the rows is dropped.
FetchSpotErrorBreaks ==
    /\ InRows
    /\ LET row == rows[idx]
           calls == FetchSpots(row)
       IN  \E n \in 1..Len(calls) :
               trace' = trace \o SubSeq(calls, 1, n - 1)
                              \o <<[calls[n] EXCEPT !.ok = FALSE]>>
    /\ idx' = Len(rows) + 1
    /\ UNCHANGED <<active_trades, executed_trades, marked, pc, rows, call, ret>>

\* A fetch_spot of the row raised: log, continue with the next row.
FetchSpotError ==
    /\ InRows
    /\ LET row == rows[idx]
           calls == FetchSpots(row)
       IN  \E n \in 1..Len(calls) :
               trace' = trace \o SubSeq(calls, 1, n - 1)
                              \o <<[calls[n] EXCEPT !.ok = FALSE]>>
    /\ idx' = idx + 1
    /\ UNCHANGED <<active_trades, executed_trades, marked, pc, rows, call, ret>>

DoForceCloseWaiting ==
    /\ InRows
    /\ LET row == rows[idx] IN
       /\ ReachesForceClose(row.manage, row.status)
       /\ IsWaiting(row.status)
       /\ \E del_ok \in BOOLEAN :
              Done(row, ForceCloseWaiting(row, del_ok, active_trades, executed_trades,
                                          marked))

DoForceCloseManaging ==
    /\ InRows
    /\ LET row == rows[idx] IN
       /\ ReachesForceClose(row.manage, row.status)
       /\ ~IsWaiting(row.status)
       /\ IsManaging(row.status)
       /\ \E signal_price \in {ForceSignalPrice(row, su, so) :
                                 su \in SpotChoices(row.symbol),
                                 so \in SpotChoices(row.occ)},
             order \in {CloseOrder(row, resp) : resp \in BrokerResponses},
             upd_ok \in BOOLEAN, del_ok \in BOOLEAN :
              Done(row, ForceCloseManaging(row, signal_price, order, upd_ok, del_ok,
                                           active_trades, executed_trades, marked))

DoManageSkip ==
    /\ InRows
    /\ LET row == rows[idx] IN
       /\ ReachesSkip(row.manage, row.status)
       /\ Done(row, Outcome(<<>>, active_trades, executed_trades, marked))

DoEntry ==
    /\ InRows
    /\ LET row == rows[idx] IN
       /\ ReachesEntry(row.manage, row.status)
       /\ \E res \in {check_entry(row, su, so) :
                        su \in SpotChoices(row.symbol), so \in SpotChoices(row.occ)},
             order \in {OpenOrder(row, resp) : resp \in BrokerResponses},
             ins_ok \in BOOLEAN, mark_ok \in BOOLEAN :
              Done(row, Entry(row, res, order, ins_ok, mark_ok,
                              active_trades, executed_trades, marked))

DoStopLossTakeProfit ==
    /\ InRows
    /\ LET row == rows[idx] IN
       /\ ReachesStopLoss(row.manage, row.status)
       /\ \E res \in {<<check_sl(row, su, so), check_tp(row, su, so)>> :
                        su \in SpotChoices(row.symbol), so \in SpotChoices(row.occ)},
             order \in {CloseOrder(row, resp) : resp \in BrokerResponses},
             upd_ok \in BOOLEAN, del_ok \in BOOLEAN :
              Done(row, StopLossTakeProfit(row, res[1], res[2], order, upd_ok, del_ok,
                                           active_trades, executed_trades, marked))

\* The broker call of the row's block raised (the JSON of the response has
\* another shape than the extraction expects): the exception leaves
\* run_trade_manager, whose calls of the broker sit in no try block.
OrderError ==
    /\ InRows
    /\ LET row == rows[idx]
           opens == {o \in {OpenOrder(row, resp) : resp \in BrokerResponses} : ~o.ok}
           closes == {o \in {CloseOrder(row, resp) : resp \in BrokerResponses} : ~o.ok}
           outcomes ==
               IF ReachesEntry(row.manage, row.status)
               THEN {Entry(row, res, order, TRUE, TRUE,
                           active_trades, executed_trades, marked) :
                       res \in {check_entry(row, su, so) :
                                  su \in SpotChoices(row.symbol),
                                  so \in SpotChoices(row.occ)},
                       order \in opens}
               ELSE IF ReachesStopLoss(row.manage, row.status)
               THEN {StopLossTakeProfit(row, res[1], res[2], order, TRUE, TRUE,
                                        active_trades, executed_trades, marked) :
                       res \in {<<check_sl(row, su, so), check_tp(row, su, so)>> :
                                  su \in SpotChoices(row.symbol),
                                  so \in SpotChoices(row.occ)},
                       order \in closes}
               ELSE IF ReachesForceClose(row.manage, row.status)
                       /\ ~IsWaiting(row.status) /\ IsManaging(row.status)
               THEN {ForceCloseManaging(row, signal_price, order, TRUE, TRUE,
                                        active_trades, executed_trades, marked) :
                       signal_price \in {ForceSignalPrice(row, su, so) :
                                           su \in SpotChoices(row.symbol),
                                           so \in SpotChoices(row.occ)},
                       order \in closes}
               ELSE {}
       IN  \E o \in outcomes :
               /\ Raises(o)
               /\ trace' = trace \o FetchSpots(row) \o o.ev
    /\ pc' = "crashed"
    /\ UNCHANGED <<active_trades, executed_trades, marked, rows, idx, call, ret>>

\* The for loop is over: time.sleep(settings.trade_manager_interval).
Sleep ==
    /\ pc = "rows"
    /\ idx > Len(rows)
    /\ pc' = "sleep"
    /\ UNCHANGED <<active_trades, executed_trades, rows, idx, trace, marked, call, ret>>

\* The sleep returns: the next iteration of while True.
Wake ==
    /\ pc = "sleep"
    /\ pc' = "fetch"
    /\ rows' = <<>>
    /\ idx' = 1
    /\ trace' = <<>>
    /\ UNCHANGED <<active_trades, executed_trades, marked, call, ret>>

\* Between iterations the operator may ask for a trade to be force-closed.
RequestForceClose ==
    /\ pc = "fetch"
    /\ \E id \in TradeIds :
          /\ active_trades[id].present
          /\ active_trades[id].manage = "Y"
          /\ active_trades' = [active_trades EXCEPT ![id].manage = "C"]
    /\ UNCHANGED <<executed_trades, pc, rows, idx, trace, marked, call, ret>>

Next ==
    \/ FetchActiveTrades
    \/ FetchActiveTradesError
    \/ FetchSpotError
    \/ DoForceCloseWaiting
    \/ DoForceCloseManaging
    \/ DoManageSkip
    \/ DoEntry
    \/ DoStopLossTakeProfit
    \/ OrderError
    \/ Sleep
    \/ Wake
    \/ RequestForceClose

Spec == Init /\ [][Next]_vars

\* ------------------------------------------ single calls of the functions
\* A second specification: one row, with any setting of the condition that
\* is evaluated and any pair of snapshots, goes through the block of the loop
\* body that evaluates that condition; or one broker call extracts the fill
\* of any response.  call holds the arguments, ret the value returned.
Sides == {"long", "short"}
AssetTypes == {"equity", "option"}
EntryConds == {"", "touch", "TOUCH", "candle-close", "now"}
ExitConds == {"", "at", "candle-close"}

\* The price type and the time frame a condition may carry.
PriceKinds == {<<"last", "">>, <<"tf", "5m">>, <<"tf", "">>}

OrderSides == {"buy", "sell", "buy_to_open", "sell_to_close"}

\* The responses of a single broker call: the two prices range over all the
\* prices, so that they can differ.
EvalFields == Prices \cup {None, Unparsable}
EvalResponses ==
    [ok : BOOLEAN, shape : Shapes, fill : EvalFields, avg : EvalFields]

NoResponse == [ok |-> FALSE, shape |-> "object", fill |-> None, avg |-> None]

\* The row of trade 1 with this side, asset class and status.
EvalRow(side, asset_type, status) ==
    [Row(1, [manage |-> "Y", status |-> status])
       EXCEPT !.side = side, !.asset_type = asset_type,
              !.occ = IF asset_type = "equity" THEN "" ELSE "O:AMD250919C00160000"]

EntryRow(base, enabled, cond, kind, level) ==
    [base EXCEPT !.entry_enabled = enabled, !.entry_cond = cond,
                 !.entry_price_type = kind[1], !.entry_tf = kind[2], !.entry = level]

StopLossRow(base, enabled, cond, kind, level) ==
    [base EXCEPT !.sl_enabled = enabled, !.sl_cond = cond,
                 !.sl_price_type = kind[1], !.sl_tf = kind[2], !.sl = level]

TakeProfitRow(base, enabled, cond, kind, level) ==
    [base EXCEPT !.tp_enabled = enabled, !.tp_cond = cond,
                 !.tp_price_type = kind[1], !.tp_tf = kind[2], !.tp = level]

CheckCall(fn, row, spot_under, spot_option) ==
    [fn |-> fn, row |-> row, spot_under |-> spot_under, spot_option |-> spot_option,
     resp |-> NoResponse, side |-> ""]

BrokerCall(fn, row, side, resp) ==
    [fn |-> fn, row |-> row, spot_under |-> NoSpot, spot_option |-> NoSpot,
     resp |-> resp, side |-> side]

InitEval ==
    /\ \/ \E side \in Sides, asset_type \in AssetTypes, enabled \in BOOLEAN,
            kind \in PriceKinds, level \in PriceOrNone,
            spot_under \in Spots, spot_option \in Spots :
             \/ \E cond \in EntryConds :
                   call = CheckCall("check_entry",
                                    EntryRow(EvalRow(side, asset_type, "nt-waiting"),
                                             enabled, cond, kind, level),
                                    spot_under, spot_option)
             \/ \E cond \in ExitConds :
                   \/ call = CheckCall("check_sl",
                                       StopLossRow(EvalRow(side, asset_type, "nt-managing"),
                                                   enabled, cond, kind, level),
                                       spot_under, spot_option)
                   \/ call = CheckCall("check_tp",
                                       TakeProfitRow(EvalRow(side, asset_type, "nt-managing"),
                                                     enabled, cond, kind, level),
                                       spot_under, spot_option)
       \/ \E side \in OrderSides, resp \in EvalResponses :
             \/ call = BrokerCall("place_equity_market",
                                  EvalRow("long", "equity", "nt-waiting"), side, resp)
             \/ call = BrokerCall("place_option_market",
                                  EvalRow("long", "option", "nt-waiting"), side, resp)
    /\ ret = NotReturned
    /\ pc = "call"
    /\ rows = <<call.row>>
    /\ idx = 1
    /\ trace = <<>>
    /\ marked = {}
    /\ active_trades =
         [id \in TradeIds |->
            IF id = call.row.id
            THEN [present |-> TRUE, manage |-> call.row.manage, status |-> call.row.status]
            ELSE NoTrade]
    /\ executed_trades =
         [id \in TradeIds |->
            IF id = call.row.id /\ IsManaging(call.row.status)
            THEN [NoExecuted EXCEPT !.open_price = 1]
            ELSE NoExecuted]

\* The block of the loop body has run on the row: on to the next row, unless
\* its broker call raised.
Returned(o) ==
    /\ trace' = o.ev
    /\ active_trades' = o.at
    /\ executed_trades' = o.ex
    /\ marked' = o.mk
    /\ pc' = IF Raises(o) THEN "crashed" ELSE "returned"
    /\ idx' = IF Raises(o) THEN idx ELSE idx + 1
    /\ UNCHANGED <<rows, call>>

\* The outcomes of the broker and of the persistence service are drawn only
\* when the block reaches them (a check has triggered).
OrdersIf(triggered, orders) ==
    IF triggered THEN orders ELSE {Ev(0, "", "", None, TRUE)}

OutcomesIf(triggered) == IF triggered THEN BOOLEAN ELSE {TRUE}

\* should_enter, entry_price = check_entry(row, spot_under, spot_option), and
\* the entry block that acts on it.
EvalEntry ==
    /\ pc = "call"
    /\ call.fn = "check_entry"
    /\ LET res == check_entry(call.row, call.spot_under, call.spot_option) IN
       /\ ret' = res
       /\ \E order \in OrdersIf(res[1], {OpenOrder(call.row, resp) :
                                                resp \in BrokerResponses}),
             ins_ok \in OutcomesIf(res[1]), mark_ok \in OutcomesIf(res[1]) :
              Returned(Entry(call.row, res, order, ins_ok, mark_ok,
                             active_trades, executed_trades, marked))

\* sl_hit, sl_price_signal = check_sl(row, spot_under, spot_option), and the
\* stop-loss / take-profit block that acts on it.
EvalStopLoss ==
    /\ pc = "call"
    /\ call.fn = "check_sl"
    /\ LET res == check_sl(call.row, call.spot_under, call.spot_option)
           tp_res == check_tp(call.row, call.spot_under, call.spot_option)
       IN  /\ ret' = res
           /\ \E order \in OrdersIf(res[1] \/ tp_res[1],
                                       {CloseOrder(call.row, resp) :
                                          resp \in BrokerResponses}),
                 upd_ok \in OutcomesIf(res[1] \/ tp_res[1]),
                 del_ok \in OutcomesIf(res[1] \/ tp_res[1]) :
                  Returned(StopLossTakeProfit(call.row, res, tp_res, order, upd_ok, del_ok,
                                              active_trades, executed_trades, marked))

\* tp_hit, tp_price_signal = check_tp(row, spot_under, spot_option), and the
\* take-profit block that acts on it.
EvalTakeProfit ==
    /\ pc = "call"
    /\ call.fn = "check_tp"
    /\ LET res == check_tp(call.row, call.spot_under, call.spot_option) IN
       /\ ret' = res
       /\ \E order \in OrdersIf(res[1], {CloseOrder(call.row, resp) :
                                                resp \in BrokerResponses}),
             upd_ok \in OutcomesIf(res[1]), del_ok \in OutcomesIf(res[1]) :
              Returned(TakeProfit(call.row, res, order, upd_ok, del_ok,
                                  active_trades, executed_trades, marked))

\* tradier_client.place_equity_market(symbol, qty, side)
CallEquity ==
    /\ pc = "call"
    /\ call.fn = "place_equity_market"
    /\ ret' = place_equity_market(call.row.symbol, call.row.qty, call.side, call.resp)
    /\ pc' = "returned"
    /\ UNCHANGED <<active_trades, executed_trades, rows, idx, trace, marked, call>>

\* tradier_client.place_option_market(occ, qty, side)
CallOption ==
    /\ pc = "call"
    /\ call.fn = "place_option_market"
    /\ ret' = place_option_market(call.row.occ, call.row.qty, call.side, call.resp)
    /\ pc' = "returned"
    /\ UNCHANGED <<active_trades, executed_trades, rows, idx, trace, marked, call>>

NextEval ==
    \/ EvalEntry
    \/ EvalStopLoss
    \/ EvalTakeProfit
    \/ CallEquity
    \/ CallOption

SpecEval == InitEval /\ [][NextEval]_vars

\* ------------------------------------------------- reading the iteration
OrderOps == {"place_equity_market", "place_option_market"}
WriteOps == {"insert_executed_trade_open", "mark_as_managing",
             "update_executed_trade_close", "delete_trade"}
CheckOps == {"check_entry", "check_sl", "check_tp"}
CloseSides == {"sell", "sell_to_close"}

\* The calls the iteration made for a trade, in order.
CallsOf(id) == SelectSeq(trace, LAMBDA e : e.id = id)

\* Indexes of the fetched rows whose processing is over.
Processed == {k \in 1..Len(rows) : k < idx}

\* The trade's row of the table is as it was fetched.
Untouched(row) ==
    /\ active_trades[row.id].present
    /\ active_trades[row.id].status = row.status
    /\ active_trades[row.id].manage = row.manage

\* A call of the trade with this op was made.
Called(id, ops) == \E i \in 1..Len(trace) : trace[i].id = id /\ trace[i].op \in ops

\* The trade's order of this iteration came back without a fill.
NoFill(id) ==
    \E i \in 1..Len(trace) :
        trace[i].id = id /\ trace[i].op \in OrderOps /\ trace[i].price = None

\* C1: when the broker call for a trade returns no fill, on any path, no
\* persistence write is issued for that trade in that iteration and the
\* trade's row is still there with the status it was fetched with.
C1_NoFillNoWrite ==
    \A k \in Processed :
        NoFill(rows[k].id) =>
            /\ ~Called(rows[k].id, WriteOps)
            /\ Untouched(rows[k])

\* Reached: at the end of an iteration the first trade's stop-loss order and
\* the second trade's entry order both came back without a fill.
C1_Witness ==
    /\ pc = "sleep"
    /\ Len(rows) = 2
    /\ NoFill(1) /\ Called(1, {"check_sl"}) /\ IsManaging(rows[1].status)
    /\ NoFill(2) /\ Called(2, {"check_entry"}) /\ IsWaiting(rows[2].status)

\* C2: stop-loss is evaluated before take-profit, and once check_sl has
\* triggered for a trade, check_tp is not evaluated and no take-profit order
\* or 'tp' close is issued for it in that iteration, fill or no fill.
C2_StopLossFirst ==
    \A i \in 1..Len(trace) :
        /\ trace[i].op = "check_tp" =>
              /\ i > 1
              /\ trace[i - 1].op = "check_sl"
              /\ trace[i - 1].id = trace[i].id
              /\ ~trace[i - 1].ok
        /\ (trace[i].op = "check_sl" /\ trace[i].ok) =>
              /\ ~Called(trace[i].id, {"check_tp"})
              /\ \A j \in 1..Len(trace) :
                    (trace[j].id = trace[i].id /\ trace[j].op \in OrderOps) => j = i + 1
              /\ \A j \in 1..Len(trace) :
                    (trace[j].id = trace[i].id
                       /\ trace[j].op = "update_executed_trade_close")
                    => trace[j].arg = "sl"

\* Reached: the long trade's stop-loss triggered at a price that satisfies
\* its take-profit too, its order got no fill, and the iteration is over.
C2_Witness ==
    /\ pc = "sleep"
    /\ \E k \in Processed, i \in 1..Len(trace) :
          /\ rows[k].id = trace[i].id
          /\ rows[k].side = "long"
          /\ trace[i].op = "check_sl" /\ trace[i].ok
          /\ rows[k].tp_enabled /\ rows[k].tp_cond = "at"
          /\ rows[k].tp_price_type = rows[k].sl_price_type
          /\ trace[i].price >= rows[k].tp
          /\ NoFill(rows[k].id)

\* C3: a trade fetched with manage = 'C' and status nt-waiting gets no broker
\* order (neither place_equity_market nor place_option_market) and no
\* executed-open or executed-close write in that iteration.
C3_ForceCloseWaitingNoBroker ==
    \A k \in Processed :
        (rows[k].manage = "C" /\ rows[k].status = "nt-waiting") =>
            /\ ~Called(rows[k].id, OrderOps)
            /\ ~Called(rows[k].id, {"insert_executed_trade_open",
                                    "update_executed_trade_close"})

\* Reached: both trades were fetched force-closed while waiting, equity and
\* option, and both were deleted.
C3_Witness ==
    /\ pc = "sleep"
    /\ Len(rows) = 2
    /\ \A k \in 1..2 :
          /\ rows[k].manage = "C" /\ rows[k].status = "nt-waiting"
          /\ Called(rows[k].id, {"delete_trade"})
          /\ ~active_trades[rows[k].id].present

\* The delete_trade call of a trade, when it made one, returned normally.
Deleted(id) ==
    \E i \in 1..Len(trace) :
        trace[i].id = id /\ trace[i].op = "delete_trade" /\ trace[i].ok

\* One of the trade's calls raised.
Raised(id, ops) ==
    \E i \in 1..Len(trace) : trace[i].id = id /\ trace[i].op \in ops /\ ~trace[i].ok

\* C4 as claimed: every trade fetched with manage = 'C' and status
\* nt-waiting is gone from the active trades at the end of the iteration.
C4_AlwaysDeleted ==
    pc = "sleep" =>
        \A k \in 1..Len(rows) :
            (rows[k].manage = "C" /\ rows[k].status = "nt-waiting") =>
                ~active_trades[rows[k].id].present

\* C4, amended: for such a trade, unless fetching its snapshots raised,
\* delete_trade is called, once and as its only call after the snapshot
\* fetches; the trade is gone from the active trades exactly when that call
\* returned normally, and is otherwise left as it was fetched.
C4_DeletedUnlessFailure ==
    \A k \in Processed :
        (rows[k].manage = "C" /\ rows[k].status = "nt-waiting") =>
            LET id == rows[k].id
                calls == CallsOf(id)
            IN  /\ Raised(id, {"fetch_spot"}) =>
                      /\ ~Called(id, {"delete_trade"})
                      /\ Untouched(rows[k])
                /\ ~Raised(id, {"fetch_spot"}) =>
                      /\ Len(calls) > 0
                      /\ calls[Len(calls)].op = "delete_trade"
                      /\ \A i \in 1..(Len(calls) - 1) : calls[i].op = "fetch_spot"
                      /\ calls[Len(calls)].ok => ~active_trades[id].present
                      /\ ~calls[Len(calls)].ok => Untouched(rows[k])

\* Reached: at the end of an iteration one such trade is deleted and the
\* other, whose delete_trade raised, is still there.
C4_Witness ==
    /\ pc = "sleep"
    /\ Len(rows) = 2
    /\ \A k \in 1..2 : rows[k].manage = "C" /\ rows[k].status = "nt-waiting"
    /\ Deleted(1) /\ ~active_trades[1].present
    /\ Raised(2, {"delete_trade"}) /\ active_trades[2].present

\* The trade's entry triggered and its open order came back with a fill.
EntryFilled(id) ==
    /\ \E i \in 1..Len(trace) :
          trace[i].id = id /\ trace[i].op = "check_entry" /\ trace[i].ok
    /\ \E i \in 1..Len(trace) :
          /\ trace[i].id = id /\ trace[i].op \in OrderOps
          /\ trace[i].arg \in {"buy", "buy_to_open"} /\ trace[i].price # None

\* The fill of the trade's order of this iteration.
FillOf(id) ==
    LET i == CHOOSE i \in 1..Len(trace) : trace[i].id = id /\ trace[i].op \in OrderOps
    IN  trace[i].price

\* C5 as claimed: when a waiting trade with manage = 'Y' has its entry
\* triggered and the open order fills, an executed-open record is persisted
\* and its status is managing once the trade is processed.
C5_AlwaysManaging ==
    \A k \in Processed :
        (rows[k].manage = "Y" /\ rows[k].status = "nt-waiting"
           /\ EntryFilled(rows[k].id)) =>
            /\ executed_trades[rows[k].id].open_price # None
            /\ active_trades[rows[k].id].present
            /\ IsManaging(active_trades[rows[k].id].status)

\* C5, amended: in that case insert_executed_trade_open is called with the
\* fill; when it and mark_as_managing both return normally the record is
\* persisted at the fill and the status is managing; when the insert raises
\* mark_as_managing is not called and the status stays nt-waiting; when
\* mark_as_managing raises the record is persisted at the fill and the status
\* stays nt-waiting.
C5_ManagingUnlessFailure ==
    \A k \in Processed :
        (rows[k].manage = "Y" /\ rows[k].status = "nt-waiting"
           /\ EntryFilled(rows[k].id)) =>
            LET id == rows[k].id IN
            /\ Called(id, {"insert_executed_trade_open"})
            /\ active_trades[id].present
            /\ Raised(id, {"insert_executed_trade_open"}) =>
                  /\ ~Called(id, {"mark_as_managing"})
                  /\ active_trades[id].status = "nt-waiting"
            /\ ~Raised(id, {"insert_executed_trade_open"}) =>
                  /\ Called(id, {"mark_as_managing"})
                  /\ executed_trades[id].open_price = FillOf(id)
                  /\ Raised(id, {"mark_as_managing"}) =>
                        active_trades[id].status = "nt-waiting"
                  /\ ~Raised(id, {"mark_as_managing"}) =>
                        IsManaging(active_trades[id].status)

\* Reached: the equity trade's entry filled and it is managing with its
\* executed-open record; the option trade's entry filled too, its insert
\* raised and it is still waiting.
C5_Witness ==
    /\ pc = "sleep"
    /\ Len(rows) = 2
    /\ \A k \in 1..2 : rows[k].manage = "Y" /\ rows[k].status = "nt-waiting"
    /\ EntryFilled(1) /\ EntryFilled(2)
    /\ active_trades[1].status = "nt-managing"
    /\ executed_trades[1].open_price = FillOf(1)
    /\ Raised(2, {"insert_executed_trade_open"})
    /\ active_trades[2].status = "nt-waiting"

\* C6: every price persisted is the confirmed fill of the order submitted
\* for that trade just before: the price given to insert_executed_trade_open
\* or update_executed_trade_close is the price the order returned, is never
\* absent, and is not taken from the signal price of the check.
C6_PersistedPriceIsFill ==
    \A i \in 1..Len(trace) :
        trace[i].op \in {"insert_executed_trade_open", "update_executed_trade_close"} =>
            /\ i > 1
            /\ trace[i - 1].op \in OrderOps
            /\ trace[i - 1].id = trace[i].id
            /\ trace[i].price = trace[i - 1].price
            /\ trace[i].price \in FillPrices
            /\ trace[i].ok =>
                  IF trace[i].op = "insert_executed_trade_open"
                  THEN executed_trades[trace[i].id].open_price = trace[i - 1].price
                  ELSE executed_trades[trace[i].id].close_price = trace[i - 1].price

\* Reached: an entry and a stop-loss or take-profit close were both
\* persisted at fills that differ from the signal prices their checks
\* returned.
C6_Witness ==
    /\ pc = "sleep"
    /\ \E i \in 1..(Len(trace) - 2), j \in 1..(Len(trace) - 2) :
          /\ trace[i].op = "check_entry" /\ trace[i].ok
          /\ trace[i + 2].op = "insert_executed_trade_open" /\ trace[i + 2].ok
          /\ trace[i + 2].price # trace[i].price
          /\ trace[j].op \in {"check_sl", "check_tp"} /\ trace[j].ok
          /\ trace[j + 2].op = "update_executed_trade_close" /\ trace[j + 2].ok
          /\ trace[j + 2].price # trace[j].price

\* C7 as claimed: a managing trade is deleted only after its executed-close
\* record has been persisted in that iteration: every delete_trade of a
\* trade fetched managing follows an update_executed_trade_close of that
\* trade that returned normally, and no such trade is gone from the active
\* trades without it.
C7_DeleteOnlyAfterClosePersisted ==
    \A k \in Processed :
        IsManaging(rows[k].status) =>
            /\ Called(rows[k].id, {"delete_trade"}) =>
                  ~Raised(rows[k].id, {"update_executed_trade_close"})
            /\ ~active_trades[rows[k].id].present =>
                  /\ Called(rows[k].id, {"update_executed_trade_close"})
                  /\ ~Raised(rows[k].id, {"update_executed_trade_close"})

\* C8: a trade the controller has moved to managing has an executed-open
\* record: mark_as_managing is called only right after
\* insert_executed_trade_open returned normally for the same trade, so the
\* stop-loss and take-profit checks of later iterations find the record.
C8_ManagingHasOpenRecord ==
    /\ \A id \in marked : executed_trades[id].open_price # None
    /\ \A i \in 1..Len(trace) :
          trace[i].op = "mark_as_managing" =>
              /\ i > 1
              /\ trace[i - 1].op = "insert_executed_trade_open"
              /\ trace[i - 1].id = trace[i].id
              /\ trace[i - 1].ok

\* Reached: a later iteration evaluates the stop-loss of a trade the
\* controller itself moved to managing.
C8_Witness ==
    \E k \in Processed :
        /\ rows[k].id \in marked
        /\ rows[k].status = "nt-managing"
        /\ Called(rows[k].id, {"check_sl"})

\* C9: for a trade fetched with status nt-waiting, check_sl and check_tp are
\* not evaluated and no close order (sell, sell_to_close) is submitted in
\* that iteration, also when its entry order fills and it is marked managing.
C9_WaitingNeverClosed ==
    \A k \in Processed :
        rows[k].status = "nt-waiting" =>
            /\ ~Called(rows[k].id, {"check_sl", "check_tp"})
            /\ \A i \in 1..Len(trace) :
                  (trace[i].id = rows[k].id /\ trace[i].op \in OrderOps)
                  => trace[i].arg \notin CloseSides

\* Reached: a waiting trade's entry filled and it was marked managing in the
\* iteration that has just ended.
C9_Witness ==
    /\ pc = "sleep"
    /\ \E k \in Processed :
          /\ rows[k].status = "nt-waiting"
          /\ EntryFilled(rows[k].id)
          /\ active_trades[rows[k].id].status = "nt-managing"
          /\ \E i \in 1..Len(trace) :
                trace[i].id = rows[k].id /\ trace[i].op = "mark_as_managing" /\ trace[i].ok

\* C10: a trade whose manage flag is neither 'Y' nor 'C' is left untouched:
\* after its snapshots are fetched no condition is evaluated, no order is
\* submitted and no write is issued for it, whatever its status, and the
\* loop goes on to the next trade.
C10_OtherFlagSkipped ==
    \A k \in Processed :
        rows[k].manage \notin {"Y", "C"} =>
            /\ ~Called(rows[k].id, CheckOps \cup OrderOps \cup WriteOps)
            /\ Untouched(rows[k])

\* Reached: the first trade, managing, was skipped for its flag and the loop
\* went on to the second trade, whose entry order was submitted.
C10_Witness ==
    /\ Len(rows) = 2
    /\ Processed = {1, 2}
    /\ rows[1].manage = "N" /\ IsManaging(rows[1].status)
    /\ ~Raised(1, {"fetch_spot"})
    /\ rows[2].manage = "Y"
    /\ Called(2, OrderOps)

\* C11 as claimed: an exception raised at any point of a trade's processing
\* is caught, the later trades of the iteration are still processed and the
\* next iteration starts: no exception ever leaves run_trade_manager.
C11_NoErrorEndsLoop == pc # "crashed"

\* ------------------------------------------------ reading a single call
\* The call of this function has returned (its block may then have crashed).
Evaluated(fn) == pc \in {"returned", "crashed"} /\ call.fn = fn

\* The price the entry condition of the call's row resolves to.
EntryPrice == _get_entry_price(call.row, call.spot_under, call.spot_option)

\* C12: for an enabled entry condition of kind 'touch' or 'candle-close' with
\* a level and a resolved price, check_entry triggers exactly when the trade
\* is long and price <= level or short and price >= level, and then returns
\* the resolved price.
C12_EntryComparison ==
    (/\ Evaluated("check_entry")
     /\ call.row.entry_enabled
     /\ Lower(call.row.entry_cond) \in {"touch", "candle-close"}
     /\ call.row.entry # None
     /\ EntryPrice # None) =>
        /\ ret[1] <=> \/ call.row.side = "long" /\ EntryPrice <= call.row.entry
                      \/ call.row.side = "short" /\ EntryPrice >= call.row.entry
        /\ ret[1] => ret[2] = EntryPrice

\* Reached: a short trade's candle-close entry has triggered on a time-frame
\* close above its level, and its open order was placed.
C12_Witness ==
    /\ Evaluated("check_entry")
    /\ call.row.entry_enabled
    /\ call.row.entry_cond = "candle-close"
    /\ call.row.entry_price_type = "tf"
    /\ call.row.entry # None
    /\ EntryPrice # None /\ EntryPrice > call.row.entry
    /\ call.row.side = "short"
    /\ ret = <<TRUE, EntryPrice>>
    /\ Len(trace) > 1
    /\ trace[2].arg \in {"buy", "buy_to_open"}

\* The price a stop-loss or take-profit condition with this price type and
\* time frame resolves to on the call's snapshots.
ExitPrice(price_type, tf) ==
    LET spot_row == IF call.row.asset_type = "equity"
                    THEN call.spot_under ELSE call.spot_option
    IN  IF Lower(price_type) = "tf" THEN _get_tf_close(spot_row, tf)
        ELSE _get_spot_price(spot_row)

SlPrice == ExitPrice(call.row.sl_price_type, call.row.sl_tf)
TpPrice == ExitPrice(call.row.tp_price_type, call.row.tp_tf)

\* The stop-loss (take-profit) of the call is enabled, has a trigger kind, a
\* level and a price.
SlReady ==
    /\ Evaluated("check_sl")
    /\ call.row.sl_enabled /\ call.row.sl_cond # ""
    /\ call.row.sl # None /\ SlPrice # None

TpReady ==
    /\ Evaluated("check_tp")
    /\ call.row.tp_enabled /\ call.row.tp_cond # ""
    /\ call.row.tp # None /\ TpPrice # None

SlCompares ==
    \/ call.row.side = "long" /\ SlPrice <= call.row.sl
    \/ call.row.side = "short" /\ SlPrice >= call.row.sl

TpCompares ==
    \/ call.row.side = "long" /\ TpPrice >= call.row.tp
    \/ call.row.side = "short" /\ TpPrice <= call.row.tp

\* C13 as claimed: with the condition enabled, a level and a price, check_sl
\* triggers exactly when long and price <= level or short and price >= level,
\* and check_tp exactly when long and price >= level or short and
\* price <= level, whatever trigger kind the condition carries.
C13_InvertedForEveryKind ==
    /\ SlReady => (ret[1] <=> SlCompares)
    /\ TpReady => (ret[1] <=> TpCompares)

\* C13, amended: with the condition enabled, a level and a price, check_sl
\* and check_tp trigger exactly when the trigger kind is 'at' and the
\* comparison of their side holds (inverted between the two), on the last
\* price and on a time-frame close alike, and they then return that price; a
\* condition of any other trigger kind never triggers.
C13_InvertedForAt ==
    /\ SlReady =>
          /\ ret[1] <=> (Lower(call.row.sl_cond) = "at" /\ SlCompares)
          /\ ret[1] => ret[2] = SlPrice
    /\ TpReady =>
          /\ ret[1] <=> (Lower(call.row.tp_cond) = "at" /\ TpCompares)
          /\ ret[1] => ret[2] = TpPrice

\* Reached: a long trade's take-profit of kind 'at' has triggered on a
\* time-frame close above its level, at which its stop-loss would not.
C13_Witness ==
    /\ TpReady
    /\ call.row.side = "long"
    /\ call.row.tp_cond = "at"
    /\ call.row.tp_price_type = "tf"
    /\ TpPrice > call.row.tp
    /\ ret = <<TRUE, TpPrice>>

\* C14 as claimed: an enabled entry condition of kind 'now' triggers whenever
\* its resolved price is available and returns that price, whatever the
\* level is and whether or not it is present.
C14_NowAlwaysTriggers ==
    (/\ Evaluated("check_entry")
     /\ call.row.entry_enabled
     /\ Lower(call.row.entry_cond) = "now"
     /\ EntryPrice # None) =>
        ret = <<TRUE, EntryPrice>>

\* The condition the call evaluates is disabled, has no trigger kind, or has
\* no price to compare (no snapshot, no last price, no close for its time
\* frame).
Undecidable ==
    \/ /\ Evaluated("check_entry")
       /\ ~call.row.entry_enabled \/ call.row.entry_cond = "" \/ EntryPrice = None
    \/ /\ Evaluated("check_sl")
       /\ ~call.row.sl_enabled \/ call.row.sl_cond = "" \/ SlPrice = None
    \/ /\ Evaluated("check_tp")
       /\ ~call.row.tp_enabled \/ call.row.tp_cond = "" \/ TpPrice = None

\* C15: check_entry, check_sl and check_tp return (False, None) whenever
\* their own condition is disabled, has no trigger kind or has no price,
\* whatever the prices and the level; and the loop then submits no order for
\* that condition: none follows the check in the trade's processing.
C15_UndecidableNotTriggered ==
    Undecidable =>
        /\ ret = <<FALSE, None>>
        /\ \A i \in 1..Len(trace) :
              trace[i].op = call.fn =>
                  /\ ~trace[i].ok
                  /\ i < Len(trace) =>
                        trace[i + 1].op \notin {"place_equity_market", "place_option_market"}
        /\ call.fn \in {"check_entry", "check_tp"} =>
              /\ pc = "returned"
              /\ \A i \in 1..Len(trace) :
                    trace[i].op \notin {"place_equity_market", "place_option_market"}

\* Reached: a long trade's disabled stop-loss did not trigger at a price
\* below its level, and the take-profit went on to be evaluated.
C15_Witness ==
    /\ Evaluated("check_sl")
    /\ ~call.row.sl_enabled
    /\ call.row.sl_cond = "at"
    /\ call.row.side = "long"
    /\ call.row.sl # None /\ SlPrice # None /\ SlPrice < call.row.sl
    /\ ret = <<FALSE, None>>
    /\ Len(trace) = 2
    /\ trace[2].op = "check_tp"

\* The row as a trade of the other asset class.
OtherAssetClass(row) ==
    [row EXCEPT !.asset_type = IF @ = "equity" THEN "option" ELSE "equity"]

\* C16 as claimed: each condition takes its comparison price from the
\* snapshot its own price source names and from its own time frame,
\* independently of the trade's asset class: the same condition on the same
\* pair of snapshots gives the same result for an equity and an option trade.
C16_OwnPriceSource ==
    /\ Evaluated("check_entry") =>
          ret = check_entry(OtherAssetClass(call.row), call.spot_under, call.spot_option)
    /\ Evaluated("check_sl") =>
          ret = check_sl(OtherAssetClass(call.row), call.spot_under, call.spot_option)
    /\ Evaluated("check_tp") =>
          ret = check_tp(OtherAssetClass(call.row), call.spot_under, call.spot_option)

\* A single broker call is over: ret holds a price, None or Raise.
BrokerCalled == pc = "returned" /\ call.fn \in {"place_equity_market", "place_option_market"}

\* The field holds a price.
IsPrice(x) == x \notin {None, Unparsable}

\* C17: on a successful response, place_equity_market and place_option_market
\* return the price of the order's first fill when it has one, else the
\* order's average fill price when it has one, else None: a successful call
\* with neither price yields no price.
C17_FillThenAverage ==
    (BrokerCalled /\ call.resp.ok /\ call.resp.shape = "object") =>
        /\ IsPrice(call.resp.fill) => ret = call.resp.fill
        /\ (~IsPrice(call.resp.fill) /\ IsPrice(call.resp.avg)) => ret = call.resp.avg
        /\ (~IsPrice(call.resp.fill) /\ ~IsPrice(call.resp.avg)) => ret = None

\* Reached: an option order's response held a fill price and a different
\* average fill price, and the fill price was returned.
C17_Witness ==
    /\ BrokerCalled
    /\ call.fn = "place_option_market"
    /\ call.resp.ok /\ call.resp.shape = "object"
    /\ IsPrice(call.resp.fill) /\ IsPrice(call.resp.avg)
    /\ call.resp.fill # call.resp.avg
    /\ ret = call.resp.fill

\* C18 as claimed: place_equity_market and place_option_market never raise
\* to their caller: when the HTTP call fails (transport error, timeout, error
\* status) or the response is unusable they return None.
C18_NeverRaises ==
    BrokerCalled =>
        /\ ret # Raise
        /\ (~call.resp.ok \/ call.resp.shape # "object") => ret = None

\* C19: when a fetch_spot of a trade raises, that trade gets no condition
\* check, no broker order and no persistence write in the iteration, whatever
\* its flag and status, and its row is left as fetched; the loop goes on, so
\* that every fetched row has had its turn when the iteration sleeps; and
\* when fetch_active_trades itself raises, the iteration makes no other call
\* and goes to its sleep, from which the next iteration starts.
C19_SnapshotFailureSkipsTrade ==
    /\ \A k \in 1..Len(rows) :
          Raised(rows[k].id, {"fetch_spot"}) =>
              LET calls == CallsOf(rows[k].id) IN
              /\ k \in Processed
              /\ \A i \in 1..Len(calls) : calls[i].op = "fetch_spot"
              /\ ~calls[Len(calls)].ok
              /\ Untouched(rows[k])
    /\ pc = "sleep" =>
          \A k \in 1..Len(rows) : k \in Processed /\ Called(rows[k].id, {"fetch_spot"})
    /\ Raised(0, {"fetch_active_trades"}) =>
          /\ Len(trace) = 1
          /\ rows = <<>>
          /\ pc = "sleep"
          /\ ENABLED Wake

\* Reached: the first trade, fetched for a force close, lost its snapshot
\* fetch, and the second trade of the same iteration went on to fill its
\* order and write.
C19_Witness ==
    /\ pc = "sleep"
    /\ Len(rows) = 2
    /\ rows[1].manage = "C"
    /\ Raised(rows[1].id, {"fetch_spot"})
    /\ ~Raised(rows[2].id, {"fetch_spot"})
    /\ Called(rows[2].id, OrderOps)
    /\ Called(rows[2].id, WriteOps)

\* The step of a trade's processing a call belongs to: snapshot read,
\* condition evaluation, order submission, state mutation.
Step(op) ==
    CASE op = "fetch_spot" -> 1
      [] op \in CheckOps -> 2
      [] op \in OrderOps -> 3
      [] op \in WriteOps -> 4
      [] OTHER -> 0

\* The place of the trade's row in the fetch.
RowIndex(id) == CHOOSE k \in 1..Len(rows) : rows[k].id = id

\* C20: within an iteration, after the fetch, the calls of a trade come in
\* the order snapshot reads, condition checks, order, writes: a check follows
\* the trade's snapshot reads, an order follows a check that triggered (or
\* the force-close flag), a write follows an order that filled (or the force
\* close of a waiting trade); and the trades are processed one at a time in
\* fetch order: no call of a trade comes after a call of a later row (each
\* call is compared with the one before it, which orders the whole sequence).
C20_StepsOrdered ==
    /\ \A i \in 1..Len(trace) : trace[i].id = 0 <=> i = 1
    /\ \A i \in 2..Len(trace) :
          LET e == trace[i]
              before == trace[i - 1]
              row == rows[RowIndex(e.id)]
          IN  /\ i > 2 =>
                    /\ RowIndex(before.id) <= RowIndex(e.id)
                    /\ before.id = e.id => Step(before.op) <= Step(e.op)
              /\ Step(e.op) = 2 =>
                    /\ Called(e.id, {"fetch_spot"})
                    /\ ~Raised(e.id, {"fetch_spot"})
              /\ Step(e.op) = 3 =>
                    \/ row.manage = "C"
                    \/ /\ before.id = e.id
                       /\ before.op \in CheckOps
                       /\ before.ok
              /\ Step(e.op) = 4 =>
                    \/ row.manage = "C" /\ row.status = "nt-waiting"
                    \/ \E j \in 2..(i - 1) :
                          /\ trace[j].id = e.id
                          /\ trace[j].op \in OrderOps
                          /\ trace[j].price # None

\* Reached: an iteration in which both trades went through snapshot reads,
\* a check, an order and writes, one after the other.
C20_Witness ==
    /\ pc = "sleep"
    /\ Len(rows) = 2
    /\ \A k \in 1..2 :
          /\ Called(rows[k].id, {"fetch_spot"})
          /\ Called(rows[k].id, CheckOps)
          /\ Called(rows[k].id, OrderOps)
          /\ Called(rows[k].id, WriteOps)

\* ------------------------------------------------------------- fairness
\* The force close of this trade goes through: its snapshots are fetched,
\* the broker returns a confirmed fill and both persistence calls return
\* normally.
ForceCloseSucceeds(id) ==
    /\ InRows
    /\ LET row == rows[idx] IN
       /\ row.id = id
       /\ ReachesForceClose(row.manage, row.status)
       /\ ~IsWaiting(row.status)
       /\ IsManaging(row.status)
       /\ \E signal_price \in {ForceSignalPrice(row, su, so) :
                                 su \in SpotChoices(row.symbol),
                                 so \in SpotChoices(row.occ)},
             order \in {CloseOrder(row, resp) : resp \in BrokerResponses} :
              /\ order.ok
              /\ HasFill(order.price)
              /\ Done(row, ForceCloseManaging(row, signal_price, order, TRUE, TRUE,
                                              active_trades, executed_trades, marked))

\* The loop with the scheduling the process gives it and the services the
\* way a liveness claim assumes them: the loop keeps running while it can
\* take a step, a fetch of the active trades that is attempted again and
\* again eventually succeeds, and a force close that is attempted again and
\* again eventually gets its confirmed fill with both of its writes
\* succeeding.
SpecLive ==
    /\ Init
    /\ [][Next]_vars
    /\ WF_vars(Next)
    /\ SF_vars(FetchActiveTrades)
    /\ \A id \in TradeIds : SF_vars(ForceCloseSucceeds(id))

\* The trade is in the table, managing, with the force-close flag.
ForceCloseAsked(id) ==
    /\ active_trades[id].present
    /\ IsForceClose(active_trades[id].manage)
    /\ IsManaging(active_trades[id].status)

\* The trade is gone from the table and its executed-close record carries
\* the reason 'force'.
ForceClosed(id) ==
    /\ ~active_trades[id].present
    /\ executed_trades[id].close_price # None
    /\ executed_trades[id].reason = "force"

\* In every iteration, a trade whose snapshots were fetched gets an order
\* when its trigger holds: right after each check that triggered, and for
\* the force-close flag on a managing trade.
C21_Reattempted ==
    /\ \A i \in 1..Len(trace) :
          (trace[i].op \in CheckOps /\ trace[i].ok) =>
              /\ i < Len(trace)
              /\ trace[i + 1].id = trace[i].id
              /\ trace[i + 1].op \in OrderOps
    /\ \A k \in Processed :
          (/\ IsForceClose(rows[k].manage)
           /\ IsManaging(rows[k].status)
           /\ ~Raised(rows[k].id, {"fetch_spot"})) =>
              Called(rows[k].id, OrderOps)

\* A managing trade with the force-close flag is eventually deleted with an
\* executed-close record of reason 'force'.
C21_ForceCloseCompletes ==
    \A id \in TradeIds : ForceCloseAsked(id) ~> ForceClosed(id)

\* C21 as claimed: a trade left in its state by an order without a fill is
\* re-attempted, every later iteration that fetches it with the same flag and
\* status and finds its trigger holding submits a new order for it; and,
\* the broker eventually returning a confirmed fill and the persistence
\* calls eventually succeeding, a managing trade with the force-close flag is
\* eventually deleted with an executed-close record of reason 'force'.
C21_ReattemptedUntilClosed ==
    /\ []C21_Reattempted
    /\ C21_ForceCloseCompletes

\* The broker orders the iteration submitted for a trade.
OrdersOf(id) == SelectSeq(trace, LAMBDA e : e.id = id /\ e.op \in OrderOps)

\* C22: in any single iteration at most one broker order is submitted per
\* trade: place_equity_market / place_option_market is called at most once
\* for it, whether the order filled, came back without a fill or raised (no
\* entry then close, no stop-loss then take-profit, no retry).
C22_OneOrderPerIteration ==
    \A id \in TradeIds : Len(OrdersOf(id)) <= 1

\* Reached: at the end of an iteration the first trade's stop-loss order came
\* back without a fill at a price that satisfies its take-profit too, the
\* second trade's entry order filled and marked it managing, and each of the
\* two got its one order.
C22_Witness ==
    /\ pc = "sleep"
    /\ Len(rows) = 2
    /\ \E i \in 1..Len(trace) :
          /\ trace[i].id = rows[1].id
          /\ trace[i].op = "check_sl" /\ trace[i].ok
          /\ rows[1].side = "long"
          /\ rows[1].tp_enabled /\ rows[1].tp_cond = "at"
          /\ rows[1].tp_price_type = rows[1].sl_price_type
          /\ trace[i].price >= rows[1].tp
    /\ NoFill(rows[1].id)
    /\ rows[2].status = "nt-waiting"
    /\ EntryFilled(rows[2].id)
    /\ IsManaging(active_trades[rows[2].id].status)
    /\ \A k \in 1..2 : Len(OrdersOf(rows[k].id)) = 1

OpenSides == {"buy", "buy_to_open"}

\* The step has submitted an order of this direction for the trade: the
\* primed trace has a call the trace did not have.  Wake empties the trace
\* and adds nothing.
NewOrder(id, sides) ==
    /\ Len(trace') > Len(trace)
    /\ \E i \in (Len(trace) + 1)..Len(trace') :
          /\ trace'[i].id = id
          /\ trace'[i].op \in OrderOps
          /\ trace'[i].arg \in sides

\* C23 as claimed: once an order for a trade has received a confirmed fill,
\* no order of the same direction is submitted for it in a later iteration,
\* also when a write after the fill failed.  The executed-open record of a
\* trade is written from the confirmed fill of an open order, its
\* executed-close record from the confirmed fill of a close order (C6): with
\* the record in the table, no step adds an order of that direction.
C23_OneFillPerDirection ==
    [][\A id \in TradeIds :
          /\ executed_trades[id].open_price # None => ~NewOrder(id, OpenSides)
          /\ executed_trades[id].close_price # None => ~NewOrder(id, CloseSides)]_vars

\* C23, amended: once an order has received a confirmed fill and the write
\* that moves the trade on has returned normally, no further order of that
\* direction is submitted for the trade: none that opens once
\* mark_as_managing has succeeded for it, none at all once delete_trade has
\* succeeded for it.
C23_NoOrderAfterTransition ==
    [][\A id \in TradeIds :
          /\ id \in marked => ~NewOrder(id, OpenSides)
          /\ ~active_trades[id].present =>
                ~NewOrder(id, OpenSides \cup CloseSides)]_vars

\* Reached: in a later iteration the trade the controller had moved to
\* managing got a close order and no open order, while the other trade,
\* deleted after the confirmed fill of its close order, was not fetched and
\* got no call.
C23_Witness ==
    /\ pc = "sleep"
    /\ Len(rows) = 1
    /\ rows[1].id \in marked
    /\ IsManaging(rows[1].status)
    /\ Len(OrdersOf(rows[1].id)) = 1
    /\ OrdersOf(rows[1].id)[1].arg \in CloseSides
    /\ \E id \in TradeIds :
          /\ id # rows[1].id
          /\ ~active_trades[id].present
          /\ executed_trades[id].close_price # None
          /\ CallsOf(id) = <<>>

\* C24: the direction of every order matches the status the trade was
\* fetched with: an open order (equity 'buy', option 'buy_to_open') is
\* submitted only for a row fetched nt-waiting with manage 'Y', right after
\* its check_entry triggered; a close order (equity 'sell', option
\* 'sell_to_close') only for a row fetched managing that has the force-close
\* flag or whose check_sl / check_tp has just triggered; and an equity trade
\* only goes through place_equity_market, an option trade only through
\* place_option_market.
C24_DirectionMatchesStatus ==
    \A i \in 2..Len(trace) :
        trace[i].op \in OrderOps =>
            LET e == trace[i]
                before == trace[i - 1]
                row == rows[RowIndex(e.id)]
                triggered(checks) ==
                    /\ before.id = e.id
                    /\ before.op \in checks
                    /\ before.ok
            IN  /\ e.arg \in OpenSides \cup CloseSides
                /\ e.arg \in OpenSides =>
                      /\ row.status = "nt-waiting"
                      /\ row.manage = "Y"
                      /\ triggered({"check_entry"})
                /\ e.arg \in CloseSides =>
                      /\ row.status \in {"nt-managing", "pos-managing"}
                      /\ \/ row.manage = "C"
                         \/ row.manage = "Y" /\ triggered({"check_sl", "check_tp"})
                /\ row.asset_type = "equity" =>
                      e.op = "place_equity_market" /\ e.arg \in {"buy", "sell"}
                /\ row.asset_type = "option" =>
                      e.op = "place_option_market"
                      /\ e.arg \in {"buy_to_open", "sell_to_close"}

\* Reached: in one iteration the equity trade, managing with the force-close
\* flag, was sold through place_equity_market, and the option trade, waiting,
\* was bought to open through place_option_market after its entry triggered.
C24_Witness ==
    /\ pc = "sleep"
    /\ Len(rows) = 2
    /\ rows[1].asset_type = "equity"
    /\ rows[1].manage = "C" /\ IsManaging(rows[1].status)
    /\ Len(OrdersOf(rows[1].id)) = 1
    /\ OrdersOf(rows[1].id)[1].op = "place_equity_market"
    /\ OrdersOf(rows[1].id)[1].arg = "sell"
    /\ rows[2].asset_type = "option"
    /\ rows[2].manage = "Y" /\ rows[2].status = "nt-waiting"
    /\ Len(OrdersOf(rows[2].id)) = 1
    /\ OrdersOf(rows[2].id)[1].op = "place_option_market"
    /\ OrdersOf(rows[2].id)[1].arg = "buy_to_open"

====
